---- MODULE Spec2Model ----
(***************************************************************************)
(* Three-body problem simulator (src/src/main.rs): the physics integrator, *)
(* the camera, the numeric text fields and the per-frame main loop.        *)
(*                                                                         *)
(* Numbers.  An f32 is modelled as an integer, or as the value NaN.  Every *)
(* arithmetic operation goes through FAdd/FSub/FMul/FDiv, which propagate  *)
(* NaN as IEEE-754 does (NaN op x = NaN, also NaN * 0).  A quotient that   *)
(* is no integer is truncated toward zero.                                 *)
(* Units.  Simulation lengths are whole units; a mass counts units of 1e9  *)
(* (Body::new has mass 1), so G = 6.67430e-8 becomes 67 per mass unit.     *)
(* Camera/display lengths are thousandths (POSITION_SCALE = 1/1000), so a  *)
(* raw simulation number x used as a display coordinate is x * 1000.       *)
(* Angles are hundredths of a radian.  Time is whole clock units.          *)
(* The components of a unit vector, and sines and cosines, are kept in     *)
(* thousandths (One is 1.0); Times multiplies such a factor into a number  *)
(* and rounds to the nearest.                                              *)
(* A sum of display lengths keeps the 24 significant bits of an f32, so a  *)
(* small term added to a far-away point is rounded away (DAdd).            *)
(***************************************************************************)
EXTENDS Integers, Sequences, FiniteSets, TLC

VARIABLES
    pc,             \* where the program is: a phase of main's loop, or a harness
    bodies,         \* system.bodies
    focused,        \* main's `focused`
    selected_body,  \* main's `selected_body`: {} is None, {i} is Some(i)
    running,        \* main's `running`
    prev_instant,   \* main's `prev_instant`
    dt,             \* the dt of the running tick's integration step
    camera,         \* main's `camera`
    clock,          \* wall clock (what Instant::now() returns)
    ui_i,           \* index of the body whose widgets the UI pass is at
    pre,            \* history: system.bodies before the last operation
    last,           \* history: the last operation performed and its inputs
    hist            \* history of the main loop (camera call, clicks, steps)

vars == <<pc, bodies, focused, selected_body, running, prev_instant, dt,
          camera, clock, ui_i, pre, last, hist>>

----------------------------------------------------------------------------
(* f32 arithmetic *)

NaN == -2000000000

IsNaN(x) == x = NaN

Abs(x) == IF x < 0 THEN -x ELSE x

FAdd(a, b) == IF IsNaN(a) \/ IsNaN(b) THEN NaN ELSE a + b

FSub(a, b) == IF IsNaN(a) \/ IsNaN(b) THEN NaN ELSE a - b

FMul(a, b) == IF IsNaN(a) \/ IsNaN(b) THEN NaN ELSE a * b

\* integer quotient truncated toward zero
Quot(a, b) ==
    IF (a >= 0) = (b > 0) THEN Abs(a) \div Abs(b) ELSE -(Abs(a) \div Abs(b))

\* a / b; 0/0 is NaN, and x/0 (an infinity) is folded into NaN as well
FDiv(a, b) == IF IsNaN(a) \/ IsNaN(b) \/ b = 0 THEN NaN ELSE Quot(a, b)

\* a < b on f32: false when either side is NaN
FLess(a, b) == ~IsNaN(a) /\ ~IsNaN(b) /\ a < b

\* Newton's iteration down to the floor of the square root of n, from x above it
RECURSIVE SqrtFrom(_, _)
SqrtFrom(n, x) ==
    LET y == (x + n \div x) \div 2
    IN  IF y >= x THEN x ELSE SqrtFrom(n, y)

\* floor of the square root, n >= 0
ISqrt(n) == IF n = 0 THEN 0 ELSE SqrtFrom(n, IF n < 46340 THEN n ELSE 46340)

FSqrt(a) == IF IsNaN(a) \/ a < 0 THEN NaN ELSE ISqrt(a)

----------------------------------------------------------------------------
(* Vec3 *)

vec3(x, y, z) == <<x, y, z>>

ZERO == vec3(0, 0, 0)

NaNVec == vec3(NaN, NaN, NaN)

HasNaN(v) == IsNaN(v[1]) \/ IsNaN(v[2]) \/ IsNaN(v[3])

VAdd(a, b) == vec3(FAdd(a[1], b[1]), FAdd(a[2], b[2]), FAdd(a[3], b[3]))

VSub(a, b) == vec3(FSub(a[1], b[1]), FSub(a[2], b[2]), FSub(a[3], b[3]))

VScale(v, s) == vec3(FMul(v[1], s), FMul(v[2], s), FMul(v[3], s))

VDiv(v, s) == vec3(FDiv(v[1], s), FDiv(v[2], s), FDiv(v[3], s))

Dot(a, b) == FAdd(FAdd(FMul(a[1], b[1]), FMul(a[2], b[2])), FMul(a[3], b[3]))

\* Vec3::length
Length(v) == FSqrt(Dot(v, v))

\* 1.0 as a factor: a cosine, or a component of a unit vector
One == 1000

\* a * f for a factor f in thousandths, rounded to the nearest
Times(a, f) ==
    IF IsNaN(a) \/ IsNaN(f) THEN NaN
    ELSE Quot(2 * a * f + (IF a * f >= 0 THEN One ELSE -One), 2 * One)

VTimes(v, f) == vec3(Times(v[1], f), Times(v[2], f), Times(v[3], f))

\* Vec3::cross of two unit vectors
Cross(a, b) ==
    vec3(FSub(Times(a[2], b[3]), Times(a[3], b[2])),
         FSub(Times(a[3], b[1]), Times(a[1], b[3])),
         FSub(Times(a[1], b[2]), Times(a[2], b[1])))

MaxAbs(v) ==
    LET m == IF Abs(v[1]) > Abs(v[2]) THEN Abs(v[1]) ELSE Abs(v[2])
    IN  IF m > Abs(v[3]) THEN m ELSE Abs(v[3])

\* Vec3::normalize: v * (1 / |v|).  For the zero vector that is 0 * inf, NaN in
\* every component.  A short v is scaled up first so that |v| keeps its digits.
Normalize(v) ==
    IF HasNaN(v) \/ v = ZERO THEN NaNVec
    ELSE LET k == IF MaxAbs(v) < 200 THEN 100
                  ELSE IF MaxAbs(v) < 2000 THEN 10 ELSE 1
             w == VScale(v, k)
             n == SqrtFrom(Dot(w, w), 2 * MaxAbs(w))
         IN  vec3(Quot(w[1] * One, n), Quot(w[2] * One, n),
                  Quot(w[3] * One, n))

----------------------------------------------------------------------------
(* Body *)

G == 67

EPS == 1

\* Body::new
NewBody ==
    [mass |-> 1, radius |-> 5, position |-> vec3(0, 0, 0),
     velocity |-> vec3(0, 0, 0), color |-> <<1, 1, 1>>]

\* Body::accelerate with the slip of also stepping the position
accelerate_moving(self, a, d) ==
    [self EXCEPT !.velocity = VAdd(self.velocity, VScale(a, d)),
                 !.position = VAdd(self.position, VScale(self.velocity, d))]

\* Body::accelerate
accelerate(self, a, d) ==
    [self EXCEPT !.velocity = VAdd(self.velocity, VScale(a, d))]

\* Body::find_acceleration
find_acceleration(self, other) ==
    LET vector == VSub(other.position, self.position)
        r == Length(vector)
        normalized == Normalize(vector)
        acceleration ==
            IF FLess(r, EPS) THEN 0
            ELSE FDiv(FMul(G, other.mass), FMul(r, r))
    IN  VTimes(normalized, acceleration)

\* Body::accelerate_by_body
accelerate_by_body(self, other, d) ==
    accelerate(self, find_acceleration(self, other), d)

\* Body::move_sphere
move_sphere(self, d) ==
    [self EXCEPT !.position = VAdd(self.position, VScale(self.velocity, d))]

----------------------------------------------------------------------------
(* System *)

\* the inner loop of System::accelerate: `current` pulled by bodies j..len-1
\* of the array as it stands, body i itself skipped (indices from 1 here)
RECURSIVE AccelerateInner(_, _, _, _, _)
AccelerateInner(bs, current, i, j, d) ==
    IF j > Len(bs) THEN current
    ELSE AccelerateInner(bs,
             IF i # j THEN accelerate_by_body(current, bs[j], d) ELSE current,
             i, j + 1, d)

\* the outer loop of System::accelerate over the bodies named by `order`,
\* each written back into the array before the next is processed
RECURSIVE AccelerateInOrder(_, _, _)
AccelerateInOrder(bs, order, d) ==
    IF order = <<>> THEN bs
    ELSE LET i == Head(order)
         IN  AccelerateInOrder(
                 [bs EXCEPT ![i] = AccelerateInner(bs, bs[i], i, 1, d)],
                 Tail(order), d)

\* System::accelerate: for i in 0..len
System_accelerate(bs, d) ==
    AccelerateInOrder(bs, [k \in 1..Len(bs) |-> k], d)

\* System::move_bodies
move_bodies(bs, d) == [k \in 1..Len(bs) |-> move_sphere(bs[k], d)]

----------------------------------------------------------------------------
(* Camera *)

MOVE_SPEED == 10

LOOK_SPEED == 10

POSITION_SCALE_DEN == 1000

\* the spacing of the f32 values around a display length of a thousandths: an
\* eighth from 2^20 up, a quarter from 2^21 up.  Below 2^20 it is finer than
\* the thousandths or no whole number of them, and sums there are kept as
\* they are.
Spacing(a) ==
    IF a < 1048576000 THEN 1 ELSE IF a < 2097152000 THEN 125 ELSE 250

\* x rounded to the nearest f32, ties to even
RoundF32(x) ==
    LET a == Abs(x)
        q == Spacing(a)
        lo == (a \div q) * q
        up == 2 * (a - lo) > q \/ (2 * (a - lo) = q /\ (a \div q) % 2 = 1)
        r == IF up THEN lo + q ELSE lo
    IN  IF q = 1 THEN x ELSE IF x < 0 THEN -r ELSE r

\* a + b on display lengths
DAdd(a, b) == IF IsNaN(a) \/ IsNaN(b) THEN NaN ELSE RoundF32(a + b)

DVAdd(a, b) == vec3(DAdd(a[1], b[1]), DAdd(a[2], b[2]), DAdd(a[3], b[3]))

\* an f32 of simulation size read as a display length, in thousandths
Thousandths(x) == FMul(x, POSITION_SCALE_DEN)

\* v * POSITION_SCALE, on a display vector
TimesPositionScale(v) == VDiv(v, POSITION_SCALE_DEN)

\* f32::cos at the angles the model reaches (hundredths of a radian)
Cos(a) ==
    CASE a = -400 -> -654
      [] a = -350 -> -936
      [] a = -300 -> -990
      [] a = -250 -> -801
      [] a = -200 -> -416
      [] a = -182 -> -247
      [] a = -150 -> 71
      [] a = -132 -> 248
      [] a = -100 -> 540
      [] a = -82 -> 682
      [] a = -50 -> 878
      [] a = -32 -> 949
      [] a = 0 -> 1000
      [] a = 18 -> 984
      [] a = 50 -> 878
      [] a = 68 -> 778
      [] a = 100 -> 540
      [] a = 118 -> 381
      [] a = 150 -> 71
      [] a = 168 -> -109
      [] a = 200 -> -416
      [] a = 218 -> -572
      [] a = 250 -> -801
      [] a = 268 -> -895
      [] a = 300 -> -990
      [] a = 318 -> -999
      [] a = 350 -> -936
      [] a = 368 -> -859
      [] a = 400 -> -654
      [] a = 418 -> -508

\* f32::sin, likewise
Sin(a) ==
    CASE a = -400 -> 757
      [] a = -350 -> 351
      [] a = -300 -> -141
      [] a = -250 -> -598
      [] a = -200 -> -909
      [] a = -182 -> -969
      [] a = -150 -> -997
      [] a = -132 -> -969
      [] a = -100 -> -841
      [] a = -82 -> -731
      [] a = -50 -> -479
      [] a = -32 -> -315
      [] a = 0 -> 0
      [] a = 18 -> 179
      [] a = 50 -> 479
      [] a = 68 -> 629
      [] a = 100 -> 841
      [] a = 118 -> 925
      [] a = 150 -> 997
      [] a = 168 -> 994
      [] a = 200 -> 909
      [] a = 218 -> 820
      [] a = 250 -> 598
      [] a = 268 -> 445
      [] a = 300 -> 141
      [] a = 318 -> -38
      [] a = 350 -> -351
      [] a = 368 -> -513
      [] a = 400 -> -757
      [] a = 418 -> -862

\* f32::clamp
Clamp(x, lo, hi) == IF x < lo THEN lo ELSE IF x > hi THEN hi ELSE x

\* vec3(yaw.cos() * pitch.cos(), pitch.sin(), yaw.sin() * pitch.cos())
Spherical(yaw, pitch) ==
    vec3(Times(Cos(yaw), Cos(pitch)), Sin(pitch), Times(Sin(yaw), Cos(pitch)))

\* front.cross(world_up).normalize() and right.cross(front).normalize()
WithBasis(cam, front) ==
    LET right == Normalize(Cross(front, cam.world_up))
        up == Normalize(Cross(right, front))
    IN  [cam EXCEPT !.front = front, !.right = right, !.up = up]

\* Camera::new; mouse is what mouse_position() returns
Camera_new(mouse) ==
    WithBasis(
        [x |-> 0, switch |-> FALSE, bounds |-> 800, world_up |-> vec3(0, One, 0),
         yaw |-> 118, pitch |-> 0, radius |-> 5000,
         front |-> ZERO, right |-> ZERO, up |-> ZERO,
         position |-> vec3(0, 0, 0), last_mouse_position |-> mouse,
         grabbed |-> TRUE],
        Normalize(Spherical(118, 0)))

\* the six is_key_down translations of Camera::update_free, in program order
FreeMove(cam, keys) ==
    LET step(p, key, v, sign) ==
            IF key \in keys THEN DVAdd(p, VScale(VTimes(v, MOVE_SPEED), sign))
            ELSE p
        p1 == step(cam.position, "W", cam.front, 1)
        p2 == step(p1, "S", cam.front, -1)
        p3 == step(p2, "A", cam.right, -1)
        p4 == step(p3, "D", cam.right, 1)
        p5 == step(p4, "Q", cam.up, 1)
    IN  step(p5, "E", cam.up, -1)

\* lines 201-204 of Camera::update_free: yaw and pitch after the mouse
FreeYaw(cam, mouse_delta, delta) ==
    cam.yaw + mouse_delta[1] * delta * LOOK_SPEED

FreePitch(cam, mouse_delta, delta) ==
    Clamp(cam.pitch + mouse_delta[2] * delta * (-LOOK_SPEED), -150, 150)

\* the `if self.grabbed` block of Camera::update_free
FreeLook(cam, mouse_delta, delta) ==
    LET yaw == FreeYaw(cam, mouse_delta, delta)
        pitch == FreePitch(cam, mouse_delta, delta)
        x == cam.x + (IF cam.switch THEN 4 ELSE -4)
        turned == WithBasis([cam EXCEPT !.yaw = yaw, !.pitch = pitch],
                            Normalize(Spherical(yaw, pitch)))
    IN  [turned EXCEPT !.x = x,
                       !.switch = IF x >= cam.bounds \/ x <= -cam.bounds
                                  THEN ~cam.switch ELSE cam.switch]

\* mouse_position() - self.last_mouse_position
MouseDelta(cam, mouse) ==
    <<mouse[1] - cam.last_mouse_position[1],
      mouse[2] - cam.last_mouse_position[2]>>

\* Camera::update_free; keys are the keys held down, mouse is mouse_position(),
\* delta is get_frame_time()
update_free(cam, keys, mouse, delta) ==
    LET moved == [cam EXCEPT !.position = FreeMove(cam, keys),
                             !.last_mouse_position = mouse]
        mouse_delta == MouseDelta(cam, mouse)
    IN  IF cam.grabbed THEN FreeLook(moved, mouse_delta, delta) ELSE moved

\* lines 225-236 of Camera::update_with_point: yaw and pitch after the keys
OrbitYaw(cam, keys, delta) ==
    cam.yaw - (IF "A" \in keys THEN LOOK_SPEED * delta ELSE 0)
            + (IF "D" \in keys THEN LOOK_SPEED * delta ELSE 0)

OrbitPitch(cam, keys, delta) ==
    cam.pitch + (IF "Q" \in keys THEN LOOK_SPEED * delta ELSE 0)
              - (IF "E" \in keys THEN LOOK_SPEED * delta ELSE 0)

\* lines 239-244: the zoom
OrbitRadius(cam, keys) ==
    cam.radius - (IF "W" \in keys THEN MOVE_SPEED * 2 ELSE 0)
               + (IF "S" \in keys THEN MOVE_SPEED * 2 ELSE 0)

\* Camera::update_with_point; focus_point is a display vector (thousandths)
update_with_point(cam, focus_point, keys, delta) ==
    LET yaw == OrbitYaw(cam, keys, delta)
        pitch == OrbitPitch(cam, keys, delta)
        radius == OrbitRadius(cam, keys)
        position == DVAdd(focus_point, VTimes(Spherical(yaw, pitch), radius))
    IN  WithBasis([cam EXCEPT !.yaw = yaw, !.pitch = pitch, !.radius = radius,
                              !.position = position],
                  Normalize(VSub(focus_point, position)))

\* System::mass_center, a display vector (thousandths)
mass_center(bs) ==
    IF Len(bs) = 0 THEN vec3(0, 0, 0)
    ELSE LET weighted[k \in 0..Len(bs)] ==
                 IF k = 0 THEN ZERO
                 ELSE VAdd(weighted[k - 1],
                           VScale(bs[k].position, bs[k].mass))
             total[k \in 0..Len(bs)] ==
                 IF k = 0 THEN 0 ELSE FAdd(total[k - 1], bs[k].mass)
             sum == weighted[Len(bs)]
         IN  TimesPositionScale(
                 VDiv(vec3(Thousandths(sum[1]), Thousandths(sum[2]),
                           Thousandths(sum[3])),
                      total[Len(bs)]))

----------------------------------------------------------------------------
(* number_line!: a numeric field edited as text *)

Digits == <<"0", "1", "2", "3", "4", "5", "6", "7", "8", "9">>

IsDigit(c) == \E k \in 1..10 : Digits[k] = c

DigitValue(c) == (CHOOSE k \in 1..10 : Digits[k] = c) - 1

RECURSIVE DigitsValue(_, _)
DigitsValue(text, acc) ==
    IF text = <<>> THEN acc
    ELSE DigitsValue(Tail(text), acc * 10 + DigitValue(Head(text)))

\* str::parse::<f32> on a sequence of characters: an optional sign, then one or
\* more digits.  (Fractions, exponents and the words inf and nan, which Rust
\* also accepts, are outside the texts the model types.)
parse_f32(buffer) ==
    LET signed == buffer # <<>> /\ Head(buffer) \in {"-", "+"}
        digits == IF signed THEN Tail(buffer) ELSE buffer
        ok == digits # <<>> /\ \A k \in 1..Len(digits) : IsDigit(digits[k])
    IN  [ok |-> ok,
         value |-> IF ~ok THEN 0
                   ELSE IF signed /\ Head(buffer) = "-"
                        THEN -DigitsValue(digits, 0)
                        ELSE DigitsValue(digits, 0)]

\* number_line! that assigns whatever the text holds, 0 when it is no number
number_line_unchecked(variable, changed, buffer) ==
    IF changed THEN parse_f32(buffer).value ELSE variable

\* number_line!($variable, _): the new value of $variable, given whether the
\* TextEdit reported changed() and the buffer it then holds
number_line(variable, changed, buffer) ==
    IF changed /\ parse_f32(buffer).ok THEN parse_f32(buffer).value
    ELSE variable

Fields == {"mass", "position.x", "position.y", "position.z",
           "velocity.x", "velocity.y", "velocity.z"}

GetField(body, field) ==
    CASE field = "mass" -> body.mass
      [] field = "position.x" -> body.position[1]
      [] field = "position.y" -> body.position[2]
      [] field = "position.z" -> body.position[3]
      [] field = "velocity.x" -> body.velocity[1]
      [] field = "velocity.y" -> body.velocity[2]
      [] field = "velocity.z" -> body.velocity[3]

SetField(body, field, v) ==
    CASE field = "mass" -> [body EXCEPT !.mass = v]
      [] field = "position.x" -> [body EXCEPT !.position[1] = v]
      [] field = "position.y" -> [body EXCEPT !.position[2] = v]
      [] field = "position.z" -> [body EXCEPT !.position[3] = v]
      [] field = "velocity.x" -> [body EXCEPT !.velocity[1] = v]
      [] field = "velocity.y" -> [body EXCEPT !.velocity[2] = v]
      [] field = "velocity.z" -> [body EXCEPT !.velocity[3] = v]

\* the widgets of one body of the list: the seven number lines, the radius
\* slider and the colour button.  An edit is what the user did to one of
\* them in this frame: [widget |-> "none"], or the widget with its new content.
EditBody(body, edit) ==
    CASE edit.widget = "none" -> body
      [] edit.widget = "number_line" ->
             SetField(body, edit.field,
                      number_line(GetField(body, edit.field), TRUE, edit.text))
      [] edit.widget = "slider" -> [body EXCEPT !.radius = edit.value]
      [] edit.widget = "color" -> [body EXCEPT !.color = edit.value]

----------------------------------------------------------------------------
(* main: one pass of `loop` is a tick; pc names the step the tick is at *)

MaxBodies == 2      \* "Add new body" is clicked only below this many bodies
MaxClock == 2       \* the clock, which counts frames, stops here

FocusNone == [tag |-> "None", index |-> 0]

FocusMassCenter == [tag |-> "MassCenter", index |-> 0]

FocusBody(i) == [tag |-> "Body", index |-> i]

\* texts typed into a number line while the loop runs
LoopTexts == {<<"7">>, <<"x">>}

\* what the user does to one body's value widgets in a frame while the loop
\* runs: nothing, or a text typed into the x field of its position
LoopEdits ==
    {[widget |-> "none"]}
    \cup [widget : {"number_line"}, field : {"position.x"}, text : LoopTexts]

\* the keyboard and the mouse while the loop runs: no key down, Tab not
\* pressed, the mouse at rest
LoopKeys == {}

LoopTab == {FALSE}

LoopMouse == <<0, 0>>

InitHist ==
    [cam_op |-> "none",        \* the camera update the tick ran
     cam_read |-> {},          \* the indices of bodies it dereferenced
     cam_target |-> ZERO,      \* the point it passed to update_with_point
     cam_focus |-> FocusNone,  \* `focused` when the tick began
     cam_removed |-> {},       \* the index removed at the end of the tick before
     focus_clicked |-> FALSE,  \* was a "Focus body" clicked this tick
     remove_clicks |-> {},     \* bodies whose "Remove this body" was clicked
     removed |-> {},           \* the index the last removal step removed
     removals |-> 0,           \* how many bodies that step took out
     steps |-> <<>>,           \* the steps of the tick so far
     ref_instant |-> 0,        \* when the run was toggled or last integrated
     dt_elapsed |-> 0,         \* clock time since ref_instant at the last step
     frame |-> 0]              \* get_frame_time()

\* line 298-304: the locals of main before the loop
InitMain ==
    /\ pc = "camera"
    /\ bodies = <<>>
    /\ focused = FocusNone
    /\ selected_body = {}
    /\ running = FALSE
    /\ prev_instant = 0
    /\ dt = 0
    /\ camera = Camera_new(LoopMouse)
    /\ clock = 0
    /\ ui_i = 0
    /\ pre = <<>>
    /\ last = [op |-> "init"]
    /\ hist = InitHist

\* Vec::remove(index), index from 0
RemoveAt(bs, index) ==
    [k \in 1..(Len(bs) - 1) |-> IF k <= index THEN bs[k] ELSE bs[k + 1]]

\* the point of the orbit for FocusPoint::Body(body_index): the body's raw
\* position, handed to update_with_point as it is
BodyFocusPoint(bs, body_index) ==
    LET p == bs[body_index + 1].position
    IN  vec3(Thousandths(p[1]), Thousandths(p[2]), Thousandths(p[3]))

\* the centre draw_sphere is given: body.position * POSITION_SCALE
DrawCentre(body) ==
    TimesPositionScale(vec3(Thousandths(body.position[1]),
                            Thousandths(body.position[2]),
                            Thousandths(body.position[3])))

\* line 320: is the body focus dropped?  Variant reading a slot cleared early
FallbackNever(sel) == FALSE

\* line 320: `if let Some(_) = selected_body`
Fallback(sel) == sel # {}

\* lines 307-309: Escape leaves the loop
Quit ==
    /\ pc = "camera"
    /\ pc' = "done"
    /\ UNCHANGED <<bodies, focused, selected_body, running, prev_instant, dt,
                   camera, clock, ui_i, pre, last, hist>>

\* lines 310-328: the Tab toggle, the camera update for `focused`, and the
\* reset of selected_body
CameraStep ==
    /\ pc = "camera"
    /\ \E tab \in LoopTab :
        LET cam == [camera EXCEPT !.grabbed = IF tab THEN ~@ ELSE @]
            free == update_free(cam, LoopKeys, LoopMouse, hist.frame)
            h == [hist EXCEPT !.cam_focus = focused,
                              !.cam_removed = hist.removed,
                              !.cam_read = {}, !.cam_target = ZERO,
                              !.steps = <<"camera">>]
        IN  CASE focused.tag = "None" ->
                   /\ camera' = free
                   /\ focused' = focused
                   /\ hist' = [h EXCEPT !.cam_op = "free"]
                   /\ pc' = "physics"
              [] focused.tag = "MassCenter" ->
                   /\ camera' = update_with_point(cam, mass_center(bodies),
                                                  LoopKeys, hist.frame)
                   /\ focused' = focused
                   /\ hist' = [h EXCEPT !.cam_op = "orbit",
                                        !.cam_target = mass_center(bodies)]
                   /\ pc' = "physics"
              [] focused.tag = "Body" /\ Fallback(selected_body) ->
                   /\ camera' = free
                   /\ focused' = FocusNone
                   /\ hist' = [h EXCEPT !.cam_op = "free"]
                   /\ pc' = "physics"
              [] focused.tag = "Body" /\ ~Fallback(selected_body) ->
                   IF focused.index < Len(bodies)
                   THEN /\ camera' = update_with_point(cam,
                                         BodyFocusPoint(bodies, focused.index),
                                         LoopKeys, hist.frame)
                        /\ focused' = focused
                        /\ hist' = [h EXCEPT
                               !.cam_op = "orbit",
                               !.cam_read = {focused.index},
                               !.cam_target =
                                   BodyFocusPoint(bodies, focused.index)]
                        /\ pc' = "physics"
                   ELSE \* index out of bounds: the program panics
                        /\ camera' = cam
                        /\ focused' = focused
                        /\ hist' = [h EXCEPT !.cam_op = "orbit",
                                             !.cam_read = {focused.index}]
                        /\ pc' = "panic"
    /\ selected_body' = {}
    /\ UNCHANGED <<bodies, running, prev_instant, dt, clock, ui_i, pre, last>>

\* lines 334-338: Instant::now(), dt, system.accelerate(dt)
Accelerate ==
    /\ pc = "physics"
    /\ running
    /\ dt' = clock - prev_instant
    /\ bodies' = System_accelerate(bodies, clock - prev_instant)
    /\ hist' = [hist EXCEPT !.steps = Append(@, "accelerate"),
                            !.dt_elapsed = clock - hist.ref_instant,
                            !.ref_instant = clock]
    /\ pc' = "move"
    /\ UNCHANGED <<focused, selected_body, running, prev_instant, camera,
                   clock, ui_i, pre, last>>

\* line 339: system.move_bodies(dt)
MoveBodies ==
    /\ pc = "move"
    /\ bodies' = move_bodies(bodies, dt)
    /\ hist' = [hist EXCEPT !.steps = Append(@, "move_bodies")]
    /\ pc' = "render"
    /\ UNCHANGED <<focused, selected_body, running, prev_instant, dt, camera,
                   clock, ui_i, pre, last>>

\* line 334: `if running` is false
SkipPhysics ==
    /\ pc = "physics"
    /\ ~running
    /\ pc' = "render"
    /\ UNCHANGED <<bodies, focused, selected_body, running, prev_instant, dt,
                   camera, clock, ui_i, pre, last, hist>>

\* lines 342-360: the axes, one sphere per body, the gizmo
Render ==
    /\ pc = "render"
    /\ hist' = [hist EXCEPT !.steps = Append(@, "render")]
    /\ pc' = "ui"
    /\ UNCHANGED <<bodies, focused, selected_body, running, prev_instant, dt,
                   camera, clock, ui_i, pre, last>>

\* lines 366-382: the run checkbox, the two camera buttons, "Add new body"
UiControls ==
    /\ pc = "ui"
    /\ \E run \in BOOLEAN, free \in BOOLEAN, mc \in BOOLEAN, add \in BOOLEAN :
        /\ add => Len(bodies) < MaxBodies
        /\ running' = IF run THEN ~running ELSE running
        /\ prev_instant' = IF run THEN clock ELSE prev_instant
        /\ focused' = IF mc THEN FocusMassCenter
                      ELSE IF free THEN FocusNone ELSE focused
        /\ bodies' = IF add THEN Append(bodies, NewBody) ELSE bodies
        /\ hist' = [hist EXCEPT !.focus_clicked = FALSE,
                                !.remove_clicks = {},
                                !.ref_instant = IF run THEN clock ELSE @]
    /\ ui_i' = 0
    /\ pc' = "ui_body"
    /\ UNCHANGED <<selected_body, dt, camera, clock, pre, last>>

\* lines 387-425, one iteration: the widgets of body ui_i
UiBody ==
    /\ pc = "ui_body"
    /\ ui_i < Len(bodies)
    /\ \E edit \in LoopEdits, focus \in BOOLEAN, remove \in BOOLEAN :
        /\ bodies' = [bodies EXCEPT
                          ![ui_i + 1] = EditBody(bodies[ui_i + 1], edit)]
        /\ focused' = IF focus THEN FocusBody(ui_i) ELSE focused
        /\ selected_body' = IF remove THEN {ui_i} ELSE selected_body
        /\ hist' = [hist EXCEPT
               !.focus_clicked = focus \/ @,
               !.remove_clicks = IF remove THEN @ \cup {ui_i} ELSE @]
    /\ ui_i' = ui_i + 1
    /\ UNCHANGED <<pc, running, prev_instant, dt, camera, clock, pre, last>>

\* line 425: the list is through
UiDone ==
    /\ pc = "ui_body"
    /\ ui_i >= Len(bodies)
    /\ pc' = "remove"
    /\ UNCHANGED <<bodies, focused, selected_body, running, prev_instant, dt,
                   camera, clock, ui_i, pre, last, hist>>

\* selected_body after the removal, had the removal taken the index out of it
AfterRemovalCleared(sel) == {}

\* lines 431-433: `if let Some(index) = selected_body` copies the index out;
\* selected_body is as it was
AfterRemoval(sel) == sel

\* lines 431-435: the deferred removal, then next_frame()
RemoveStep ==
    /\ pc = "remove"
    /\ clock < MaxClock
    /\ clock' = clock + 1
    /\ IF selected_body = {}
       THEN bodies' = bodies /\ pc' = "camera"
       ELSE LET index == CHOOSE i \in selected_body : TRUE
            IN  IF index < Len(bodies)
                THEN bodies' = RemoveAt(bodies, index) /\ pc' = "camera"
                ELSE bodies' = bodies /\ pc' = "panic"
    /\ selected_body' = AfterRemoval(selected_body)
    /\ hist' = [hist EXCEPT !.steps = Append(@, "remove"),
                            !.removed = selected_body,
                            !.removals = Len(bodies) - Len(bodies'),
                            !.frame = 1]
    /\ UNCHANGED <<focused, running, prev_instant, dt, camera, ui_i, pre, last>>

Next ==
    \/ Quit
    \/ CameraStep
    \/ Accelerate
    \/ MoveBodies
    \/ SkipPhysics
    \/ Render
    \/ UiControls
    \/ UiBody
    \/ UiDone
    \/ RemoveStep

Spec == InitMain /\ [][Next]_vars

----------------------------------------------------------------------------
(* Claims about the main loop, under Spec *)

\* C1: whenever the camera update dereferences bodies[i] for the focus
\* Body(i), i is below the number of bodies: the program never indexes out of
\* bounds, whatever bodies were added, removed or focused, in whatever tick.
C1_FocusIndexInBounds ==
    /\ pc # "panic"
    /\ pc = "physics" => \A i \in hist.cam_read : i < Len(bodies)

\* a "Focus body" and a "Remove this body" were clicked in one tick, the index
\* focused no longer exists, and the camera update of the next tick has run
C1_Witness ==
    /\ pc = "physics"
    /\ hist.focus_clicked
    /\ hist.remove_clicks # {}
    /\ hist.cam_focus.tag = "Body"
    /\ hist.cam_focus.index >= Len(bodies)
    /\ hist.cam_op = "free"

\* C2: when a removal was applied at the end of a tick while the focus was
\* Body(k), the camera update of the next tick is a free-fly update that reads
\* no body, and it leaves the focus None.
C2_RemovalDropsBodyFocus ==
    hist.cam_removed # {} /\ hist.cam_focus.tag = "Body" =>
        /\ hist.cam_op = "free"
        /\ hist.cam_read = {}
        /\ pc = "physics" => focused = FocusNone

\* the camera orbited body 0, then body 1 was removed, and the camera update
\* of the tick after that has run
C2_Witness ==
    /\ pc = "physics"
    /\ hist.cam_removed = {1}
    /\ hist.cam_focus = FocusBody(0)
    /\ hist.cam_op = "free"
    /\ focused = FocusNone

TickOrders ==
    {<<"camera", "accelerate", "move_bodies", "render", "remove">>,
     <<"camera", "render", "remove">>}

IsPrefix(s, t) == Len(s) <= Len(t) /\ \A k \in 1..Len(s) : s[k] = t[k]

\* the steps of the tick so far are in order, physics ran if and only if the
\* simulation is running, and the removal step took out every body whose
\* removal was asked for in the tick
C3_InOrder ==
    /\ \E t \in TickOrders : IsPrefix(hist.steps, t)
    /\ pc = "render" =>
           hist.steps = IF running THEN <<"camera", "accelerate", "move_bodies">>
                        ELSE <<"camera">>
    /\ pc = "camera" /\ hist.steps # <<>> =>
           /\ hist.steps \in TickOrders
           /\ hist.removed = hist.remove_clicks
           /\ hist.removals = Cardinality(hist.remove_clicks)

\* no step but the removal makes the collection shorter
C3_ShrinksOnlyAtEnd == pc # "remove" => Len(bodies') >= Len(bodies)

\* C3: the steps of a tick run in the order camera update, accelerate and
\* move_bodies (only if running), rendering, removal; each removal requested
\* in a tick is applied exactly once at the end of that tick, and the
\* collection never shrinks at any other point.
C3_TickOrderAndRemovals == []C3_InOrder /\ [][C3_ShrinksOnlyAtEnd]_vars

\* C9: the dt of an integration step is the time elapsed since the previous
\* integration step, or since run was switched on for the first step after.
C9_DtSinceLastStep == pc = "move" => dt = hist.dt_elapsed

\* C10: for a system of one body of positive mass, the point passed to the
\* orbit update is the same under focus MassCenter and under focus Body(0),
\* and it is the point at which the body is drawn.
C10_TargetIsDrawnPoint ==
    Len(bodies) = 1 /\ FLess(0, bodies[1].mass) =>
        /\ mass_center(bodies) = BodyFocusPoint(bodies, 0)
        /\ mass_center(bodies) = DrawCentre(bodies[1])
        /\ pc = "physics" /\ hist.cam_op = "orbit" =>
               hist.cam_target = DrawCentre(bodies[1])

----------------------------------------------------------------------------
(* The integrator on its own: System::accelerate and System::move_bodies     *)
(* applied, with any dt, to systems of bodies placed by hand.                *)

MaxPhysBodies == 3  \* bodies in a system
MaxPhysSteps == 2   \* calls in a run
MaxDt == 1          \* largest dt, in clock units

\* bodies as "Add new body" makes them, the mass and the position then
\* edited: two that can lie on each other at the origin, two away from it
PhysBodies ==
    {NewBody,
     [NewBody EXCEPT !.mass = 2],
     [NewBody EXCEPT !.position = vec3(1, 2, 2), !.mass = 2],
     [NewBody EXCEPT !.position = vec3(0, 0, 4)]}

PhysSystems == UNION {[1..n -> PhysBodies] : n \in 0..MaxPhysBodies}

\* the locals of main that a harness leaves alone
OnlyTheSystem ==
    /\ focused = FocusNone
    /\ selected_body = {}
    /\ running = FALSE
    /\ prev_instant = 0
    /\ dt = 0
    /\ ui_i = 0
    /\ hist = InitHist

InitPhys ==
    /\ pc = "phys"
    /\ bodies \in PhysSystems
    /\ pre = bodies
    /\ last = [op |-> "init", dt |-> 0]
    /\ clock = 0
    /\ camera = Camera_new(LoopMouse)
    /\ OnlyTheSystem

\* system.accelerate(d)
PhysAccelerate ==
    /\ pc = "phys"
    /\ clock < MaxPhysSteps
    /\ \E d \in 0..MaxDt :
        /\ bodies' = System_accelerate(bodies, d)
        /\ last' = [op |-> "accelerate", dt |-> d]
    /\ pre' = bodies
    /\ clock' = clock + 1
    /\ UNCHANGED <<pc, focused, selected_body, running, prev_instant, dt,
                   camera, ui_i, hist>>

\* system.move_bodies(d)
PhysMove ==
    /\ pc = "phys"
    /\ clock < MaxPhysSteps
    /\ \E d \in 0..MaxDt :
        /\ bodies' = move_bodies(bodies, d)
        /\ last' = [op |-> "move_bodies", dt |-> d]
    /\ pre' = bodies
    /\ clock' = clock + 1
    /\ UNCHANGED <<pc, focused, selected_body, running, prev_instant, dt,
                   camera, ui_i, hist>>

NextPhys == PhysAccelerate \/ PhysMove

SpecPhys == InitPhys /\ [][NextPhys]_vars

----------------------------------------------------------------------------
(* The numeric fields on their own: any text typed into any number line.     *)

MaxTextLen == 2     \* characters in a typed text
MaxEditSteps == 1   \* edits in a run

Alphabet == {"0", "1", "7", "-", "x"}

Texts == UNION {[1..n -> Alphabet] : n \in 0..MaxTextLen}

InitEdit ==
    /\ pc = "edit"
    /\ bodies \in {<<NewBody>>,
                   <<NewBody, [NewBody EXCEPT !.position = vec3(1, 2, 2)]>>}
    /\ pre = bodies
    /\ last = [op |-> "init", index |-> 0, field |-> "", text |-> <<>>]
    /\ clock = 0
    /\ camera = Camera_new(LoopMouse)
    /\ OnlyTheSystem

\* lines 403-413: one number line of body i reports changed(), holding text
EditNumber ==
    /\ pc = "edit"
    /\ clock < MaxEditSteps
    /\ \E i \in 0..(Len(bodies) - 1), field \in Fields, text \in Texts :
        /\ bodies' = [bodies EXCEPT ![i + 1] =
               EditBody(@, [widget |-> "number_line", field |-> field,
                            text |-> text])]
        /\ last' = [op |-> "number_line", index |-> i, field |-> field,
                    text |-> text]
    /\ pre' = bodies
    /\ clock' = clock + 1
    /\ UNCHANGED <<pc, focused, selected_body, running, prev_instant, dt,
                   camera, ui_i, hist>>

\* lines 404 and 414: the radius slider or the colour button of body i
EditOther ==
    /\ pc = "edit"
    /\ clock < MaxEditSteps
    /\ \E i \in 0..(Len(bodies) - 1),
          edit \in [widget : {"slider"}, value : {1, 10}]
                   \cup [widget : {"color"}, value : {<<1, 0, 0>>}] :
        /\ bodies' = [bodies EXCEPT ![i + 1] = EditBody(@, edit)]
        /\ last' = [op |-> edit.widget, index |-> i, field |-> "",
                    text |-> <<>>]
    /\ pre' = bodies
    /\ clock' = clock + 1
    /\ UNCHANGED <<pc, focused, selected_body, running, prev_instant, dt,
                   camera, ui_i, hist>>

NextEdit == EditNumber \/ EditOther

SpecEdit == InitEdit /\ [][NextEdit]_vars

----------------------------------------------------------------------------
(* Claims about the numeric fields, under SpecEdit *)

\* C8: a text that does not parse as a number leaves the edited field, and
\* every other field of every body, as it was, and the program goes on; a
\* text that parses makes the field the parsed value and changes nothing else.
C8_NumberLine ==
    last.op = "number_line" =>
        LET parsed == parse_f32(last.text)
            i == last.index + 1
        IN  /\ pc = "edit"
            /\ Len(bodies) = Len(pre)
            /\ \A k \in 1..Len(pre) : k # i => bodies[k] = pre[k]
            /\ bodies[i].radius = pre[i].radius
            /\ bodies[i].color = pre[i].color
            /\ \A f \in Fields \ {last.field} :
                   GetField(bodies[i], f) = GetField(pre[i], f)
            /\ GetField(bodies[i], last.field) =
                   IF parsed.ok THEN parsed.value
                   ELSE GetField(pre[i], last.field)

\* a text that is no number was typed into the x field of a position that is
\* not 0
C8_Witness ==
    /\ last.op = "number_line"
    /\ last.text = <<"7", "x">>
    /\ last.field = "position.x"
    /\ pre[last.index + 1].position[1] = 1
    /\ bodies = pre

----------------------------------------------------------------------------
(* Claims about the integrator, under SpecPhys *)

\* the velocity the claim gives body k after accelerate(d): its old velocity
\* plus, for each other body j in turn, d times the pull of j on k, every
\* position and mass read from the system `before` the call
RECURSIVE SnapshotVelocity(_, _, _, _, _)
SnapshotVelocity(before, k, j, v, d) ==
    IF j > Len(before) THEN v
    ELSE SnapshotVelocity(before, k, j + 1,
             IF j = k THEN v
             ELSE VAdd(v, VScale(find_acceleration(before[k], before[j]), d)),
             d)

Orders(n) == {[k \in 1..n |-> f[k]] : f \in Permutations(1..n)}

\* C4: after System.accelerate(dt) every body has the mass, radius, position
\* and colour it had before, its velocity is the one computed from the
\* positions and masses at the start of the call, and processing the bodies
\* in any other order gives the same system.
C4_AccelerateWritesOnlyVelocities ==
    last.op = "accelerate" =>
        /\ Len(bodies) = Len(pre)
        /\ \A k \in 1..Len(pre) :
               bodies[k] = [pre[k] EXCEPT !.velocity =
                   SnapshotVelocity(pre, k, 1, pre[k].velocity, last.dt)]
        /\ \A order \in Orders(Len(pre)) :
               AccelerateInOrder(pre, order, last.dt) = bodies

\* accelerate has run with a positive dt on three bodies that pull on each other
C4_Witness ==
    /\ last.op = "accelerate"
    /\ last.dt > 0
    /\ Len(pre) = 3
    /\ \A k \in 1..3 : bodies[k].velocity # pre[k].velocity
    /\ \A k \in 1..3 : ~HasNaN(bodies[k].velocity)

Separation(a, b) == Length(VSub(b.position, a.position))

\* C5: two bodies closer than EPS, coincident ones included, contribute the
\* zero vector of acceleration to each other, and accelerate(dt) on a system
\* whose bodies are all that close leaves every velocity as it was, and finite.
C5_CloseBodiesContributeZero ==
    last.op = "accelerate" =>
        /\ \A i \in 1..Len(pre), j \in 1..Len(pre) :
               i # j /\ FLess(Separation(pre[i], pre[j]), EPS)
                   => find_acceleration(pre[i], pre[j]) = ZERO
        /\ (\A i \in 1..Len(pre), j \in 1..Len(pre) :
                FLess(Separation(pre[i], pre[j]), EPS))
               => \A k \in 1..Len(pre) :
                      /\ bodies[k].velocity = pre[k].velocity
                      /\ ~HasNaN(bodies[k].velocity)

\* C6: move_bodies(0) and accelerate(0) leave every field of every body as it
\* was, whatever the system.
C6_ZeroDtChangesNothing ==
    last.op \in {"accelerate", "move_bodies"} /\ last.dt = 0 => bodies = pre

----------------------------------------------------------------------------
(* The camera on its own: the Tab toggle and the two updates, with any keys, *)
(* mouse and orbit point.                                                    *)

MaxYawSteps == 1    \* yaw goes this many half radians past its start
MaxPitchSteps == 4  \* pitch goes this many half radians above level
MaxFree == 1        \* free-fly updates in a run

\* the keys held down during an orbit update, and during a free-fly update
OrbitKeys == {{"W"}, {"S"}, {"A"}, {"D"}, {"Q"}, {"E"}}

FreeKeys == {{}, {"W", "D", "Q"}, {"S", "A", "E"}}

\* mouse_position()
MousePositions == {<<0, 0>>, <<1, -1>>}

\* get_frame_time(), in clock units
FrameTimes == {5}

\* orbit points, display vectors: the origin (the mass centre of a system at
\* rest there), and a far body focused by index, whose position is passed as
\* it is
CamTargets == {vec3(0, 0, 0),
               vec3(Thousandths(2100000), 0, Thousandths(2100000))}

\* 5.0 less a number of zoom steps of 0.02 is never exactly 0.0 in f32, so the
\* zoom stops one step short of it
InCamBounds(yaw, pitch, radius) ==
    /\ yaw >= 118 /\ yaw <= 118 + 50 * MaxYawSteps
    /\ pitch >= 0 /\ pitch <= 50 * MaxPitchSteps
    /\ radius >= MOVE_SPEED * 2
    /\ radius <= 5000

InitCam ==
    /\ pc = "cam"
    /\ camera = Camera_new(LoopMouse)
    /\ bodies = <<>>
    /\ pre = <<>>
    /\ last = [op |-> "new"]
    /\ clock = 0
    /\ OnlyTheSystem

\* lines 310-314: Tab flips camera.grabbed
CamGrab ==
    /\ pc = "cam"
    /\ camera' = [camera EXCEPT !.grabbed = ~@]
    /\ UNCHANGED <<pc, bodies, focused, selected_body, running, prev_instant,
                   dt, clock, ui_i, pre, last, hist>>

\* camera.update_free()
CamFree ==
    /\ pc = "cam"
    /\ clock < MaxFree
    /\ \E keys \in FreeKeys, mouse \in MousePositions, delta \in FrameTimes :
        /\ InCamBounds(FreeYaw(camera, MouseDelta(camera, mouse), delta),
                       FreePitch(camera, MouseDelta(camera, mouse), delta),
                       camera.radius)
        /\ camera' = update_free(camera, keys, mouse, delta)
    /\ clock' = clock + 1
    /\ UNCHANGED <<pc, bodies, focused, selected_body, running, prev_instant,
                   dt, ui_i, pre, last, hist>>

\* camera.update_with_point(target)
CamOrbit ==
    /\ pc = "cam"
    /\ \E target \in CamTargets, keys \in OrbitKeys, delta \in FrameTimes :
        /\ InCamBounds(OrbitYaw(camera, keys, delta),
                       OrbitPitch(camera, keys, delta),
                       OrbitRadius(camera, keys))
        /\ camera' = update_with_point(camera, target, keys, delta)
    /\ UNCHANGED <<pc, bodies, focused, selected_body, running, prev_instant,
                   dt, clock, ui_i, pre, last, hist>>

NextCam == CamGrab \/ CamFree \/ CamOrbit

SpecCam == InitCam /\ [][NextCam]_vars

\* x is zero to within a hundredth, x a product of two factors
Negligible(x) == ~IsNaN(x) /\ Abs(x) <= (One * One) \div 100

\* front, right and up are numbers, of length one, at right angles to each
\* other, and right x up = -front (the camera looks down its own -z)
Orthonormal(cam) ==
    /\ ~HasNaN(cam.front) /\ ~HasNaN(cam.right) /\ ~HasNaN(cam.up)
    /\ Negligible(Dot(cam.front, cam.front) - One * One)
    /\ Negligible(Dot(cam.right, cam.right) - One * One)
    /\ Negligible(Dot(cam.up, cam.up) - One * One)
    /\ Negligible(Dot(cam.front, cam.right))
    /\ Negligible(Dot(cam.front, cam.up))
    /\ Negligible(Dot(cam.right, cam.up))
    /\ Dot(Cross(cam.right, cam.up), cam.front) < 0

\* C7: after any sequence of free-fly and orbit updates the camera's front,
\* right and up are well-defined unit vectors, mutually orthogonal and
\* right-handed.
C7_BasisOrthonormal == Orthonormal(camera)

\* near the origin, where sums are exact, every update leaves a sound basis
C7_SoundNearOrigin ==
    MaxAbs(camera.position) < 1048576000 => Orthonormal(camera)

====
